---- MODULE Spec2Model ----
(***************************************************************************)
(* FlagsManager (src/index.js): a register of boolean flags packed into    *)
(* one JavaScript number and a mapping from flag names to bit values.      *)
(* JavaScript's bitwise operators work on 32-bit two's-complement          *)
(* integers; the register and the flag values are modelled as integers in  *)
(* -2^31 .. 2^31-1 and the operators bit by bit.                           *)
(***************************************************************************)
EXTENDS Integers, Sequences, FiniteSets

VARIABLES
  FLAGS,   \* this.FLAGS: the Flag Definition Set, in the order of Object.keys
  flags,   \* this.flags: the register
  made,    \* the arguments the register was constructed with
  call,    \* the last call: the method, its numbers and its lists of names
  result,  \* the completion of the last call
  prev     \* the register before the last call

vars == <<FLAGS, flags, made, call, result, prev>>

(***************************************************************************)
(* Bounds of the model.                                                    *)
(***************************************************************************)
\* longest argument list given to the variadic setFlags and areFlagsSet
MaxArgs == 2
\* longest list of generated distinct names given to the constructor
MaxNames == 33
\* longest list over ShortNames given to the constructor
MaxShort == 3

(***************************************************************************)
(* 32-bit integers of JavaScript's bitwise operators.                      *)
(***************************************************************************)
BitWidth == 32
MaxInt32 == 2147483647
MinInt32 == (-MaxInt32) - 1

\* bit 31 of the two's-complement pattern of x
SignBit(x) == x < 0
\* bits 0..30 of the two's-complement pattern of x, as a natural number
Low31(x) == IF x < 0 THEN (x + MaxInt32) + 1 ELSE x
\* the 32-bit integer with bit 31 = s and bits 0..30 = low
ToInt32(s, low) == IF s THEN (low - MaxInt32) - 1 ELSE low

RECURSIVE NatAnd(_, _)
NatAnd(a, b) ==
  IF a = 0 \/ b = 0 THEN 0
  ELSE ((a % 2) * (b % 2)) + 2 * NatAnd(a \div 2, b \div 2)

RECURSIVE NatOr(_, _)
NatOr(a, b) ==
  IF a = 0 THEN b
  ELSE IF b = 0 THEN a
  ELSE (IF (a % 2) + (b % 2) > 0 THEN 1 ELSE 0) + 2 * NatOr(a \div 2, b \div 2)

RECURSIVE NatXor(_, _)
NatXor(a, b) ==
  IF a = 0 THEN b
  ELSE IF b = 0 THEN a
  ELSE ((a + b) % 2) + 2 * NatXor(a \div 2, b \div 2)

\* x & y
BitAnd(x, y) == ToInt32(SignBit(x) /\ SignBit(y), NatAnd(Low31(x), Low31(y)))
\* x | y
BitOr(x, y) == ToInt32(SignBit(x) \/ SignBit(y), NatOr(Low31(x), Low31(y)))
\* x ^ y
BitXor(x, y) == ToInt32(SignBit(x) # SignBit(y), NatXor(Low31(x), Low31(y)))
\* ~x
BitNot(x) == ToInt32(~SignBit(x), MaxInt32 - Low31(x))

\* x << n: only the low five bits of the shift count are used; the bits
\* shifted past bit 31 are dropped and bit 31 - k becomes the sign
ShiftLeft(x, n) ==
  LET k == n % BitWidth IN
  IF k = 0 THEN x
  ELSE IF k = 31 THEN ToInt32(Low31(x) % 2 = 1, 0)
  ELSE ToInt32((Low31(x) \div 2^(31 - k)) % 2 = 1,
               (Low31(x) % 2^(31 - k)) * 2^k)

(***************************************************************************)
(* JavaScript objects as ordered property lists.                           *)
(***************************************************************************)
\* the array index a property name denotes, or -1 for any other string
ArrayIndex(name) ==
  CASE name = "0" -> 0
    [] name = "1" -> 1
    [] OTHER -> -1

ObjectKeys(obj) == [i \in 1..Len(obj) |-> obj[i].name]

ObjectValues(obj) == [i \in 1..Len(obj) |-> obj[i].value]

\* obj[key], for a key obj has
ObjectGet(obj, key) ==
  LET i == CHOOSE j \in 1..Len(obj) : obj[j].name = key IN obj[i].value

\* obj[key] = value: an existing property keeps its place; a new one goes
\* after the others, except that array-index names come first, ascending
ObjectSet(obj, key, value) ==
  LET e == [name |-> key, value |-> value] IN
  IF \E i \in 1..Len(obj) : obj[i].name = key
  THEN [i \in 1..Len(obj) |-> IF obj[i].name = key THEN e ELSE obj[i]]
  ELSE IF ArrayIndex(key) >= 0
  THEN LET k == Cardinality({i \in 1..Len(obj) :
                 /\ ArrayIndex(obj[i].name) >= 0
                 /\ ArrayIndex(obj[i].name) < ArrayIndex(key)})
       IN SubSeq(obj, 1, k) \o <<e>> \o SubSeq(obj, k + 1, Len(obj))
  ELSE Append(obj, e)

\* Array.prototype.includes on a list of numbers
Includes(seq, x) == \E i \in 1..Len(seq) : seq[i] = x

(***************************************************************************)
(* Completions of a call.                                                  *)
(***************************************************************************)
\* A completion is a return or a throw.  Every completion has all the
\* fields, so that any two can be compared: type says which one holds the
\* value (bool, names, object) or the error (message, flag).
ReturnUndefined ==
  [kind |-> "return", type |-> "undefined", bool |-> FALSE, names |-> <<>>,
   object |-> <<>>, message |-> "", flag |-> 0]

ReturnBoolean(b) == [ReturnUndefined EXCEPT !.type = "boolean", !.bool = b]

\* an array of names
ReturnNames(s) == [ReturnUndefined EXCEPT !.type = "array", !.names = s]

ReturnObject(obj) == [ReturnUndefined EXCEPT !.type = "object", !.object = obj]

\* throw new Error(`Invalid flag: ${flag}`)
InvalidFlag(flag) ==
  [ReturnUndefined EXCEPT !.kind = "throw", !.type = "Error",
                          !.message = "Invalid flag: ", !.flag = flag]

(***************************************************************************)
(* FlagsManager.                                                           *)
(***************************************************************************)
DEFAULT_FLAGS ==
  << [name |-> "VERIFIED_EMAIL", value |-> ShiftLeft(1, 0)],
     [name |-> "VERIFIED_PHONE", value |-> ShiftLeft(1, 1)],
     [name |-> "INVITED", value |-> ShiftLeft(1, 2)],
     [name |-> "ACCEPTED", value |-> ShiftLeft(1, 3)],
     [name |-> "RESET_PASSWORD", value |-> ShiftLeft(1, 4)],
     [name |-> "LOGGED_IN_FIRST_TIME", value |-> ShiftLeft(1, 5)],
     [name |-> "LOGGED_IN", value |-> ShiftLeft(1, 6)],
     [name |-> "ADMIN", value |-> ShiftLeft(1, 7)],
     [name |-> "MODERATOR", value |-> ShiftLeft(1, 8)],
     [name |-> "BANNED", value |-> ShiftLeft(1, 9)],
     [name |-> "PREMIUM_USER", value |-> ShiftLeft(1, 10)],
     [name |-> "TWO_FACTOR_AUTH", value |-> ShiftLeft(1, 11)],
     [name |-> "EMAIL_NOTIFICATIONS", value |-> ShiftLeft(1, 12)],
     [name |-> "SMS_NOTIFICATIONS", value |-> ShiftLeft(1, 13)],
     [name |-> "PROFILE_COMPLETED", value |-> ShiftLeft(1, 14)] >>

\* flagNames.reduce((acc, flag, index) => { acc[flag] = 1 << index; ... }, {})
\* from the i-th name on (index = i - 1)
RECURSIVE CreateFrom(_, _, _)
CreateFrom(flagNames, i, acc) ==
  IF i > Len(flagNames) THEN acc
  ELSE CreateFrom(flagNames, i + 1,
                  ObjectSet(acc, flagNames[i], ShiftLeft(1, i - 1)))

createCustomFlags(flagNames) == ReturnObject(CreateFrom(flagNames, 1, <<>>))

\* new FlagsManager(...args): the register and the definition set.
\* An array, even an empty one, is truthy.
constructor(args) ==
  [flags |-> 0,
   FLAGS |-> IF Len(args) >= 1 THEN createCustomFlags(args[1]).object
             ELSE DEFAULT_FLAGS,
   completion |-> ReturnUndefined]

\* args.reduce((acc, flag) => acc | flag, init)
RECURSIVE ReduceOr(_, _)
ReduceOr(args, init) ==
  IF args = <<>> THEN init
  ELSE ReduceOr(Tail(args), BitOr(init, Head(args)))

\* a slip: any number whose bits are all bits of defined flags passes
_validateFlag_mask(F, flag) ==
  IF BitAnd(flag, BitNot(ReduceOr(ObjectValues(F), 0))) # 0 THEN InvalidFlag(flag)
  ELSE ReturnUndefined

_validateFlag(F, flag) ==
  IF ~Includes(ObjectValues(F), flag) THEN InvalidFlag(flag)
  ELSE ReturnUndefined

\* a slip: the reduction starts from 0, not from the register
setFlags_overwrite(F, reg, args) ==
  LET bad == {i \in 1..Len(args) : _validateFlag(F, args[i]).kind = "throw"} IN
  IF bad # {}
  THEN [flags |-> reg,
        completion |-> _validateFlag(F, args[CHOOSE i \in bad : \A j \in bad : i <= j])]
  ELSE [flags |-> ReduceOr(args, 0), completion |-> ReturnUndefined]

\* a slip: each argument is validated and applied in one loop, so the
\* arguments before an invalid one are already in the register when it throws
RECURSIVE ValidateAndApply(_, _, _)
ValidateAndApply(F, reg, args) ==
  IF args = <<>> THEN [flags |-> reg, completion |-> ReturnUndefined]
  ELSE IF _validateFlag(F, Head(args)).kind = "throw"
  THEN [flags |-> reg, completion |-> _validateFlag(F, Head(args))]
  ELSE ValidateAndApply(F, BitOr(reg, Head(args)), Tail(args))

setFlags_partial(F, reg, args) == ValidateAndApply(F, reg, args)

\* each operation yields the register it leaves and its completion
setFlags(F, reg, args) ==
  LET bad == {i \in 1..Len(args) : _validateFlag(F, args[i]).kind = "throw"} IN
  IF bad # {}
  THEN [flags |-> reg,
        completion |-> _validateFlag(F, args[CHOOSE i \in bad : \A j \in bad : i <= j])]
  ELSE [flags |-> ReduceOr(args, reg), completion |-> ReturnUndefined]

\* a slip: &= where & is meant, the register is overwritten by the test
isFlagSet_assign(F, reg, flag) ==
  IF _validateFlag(F, flag).kind = "throw"
  THEN [flags |-> reg, completion |-> _validateFlag(F, flag)]
  ELSE [flags |-> BitAnd(reg, flag), completion |-> ReturnBoolean(BitAnd(reg, flag) # 0)]

isFlagSet(F, reg, flag) ==
  IF _validateFlag(F, flag).kind = "throw"
  THEN [flags |-> reg, completion |-> _validateFlag(F, flag)]
  ELSE [flags |-> reg, completion |-> ReturnBoolean(BitAnd(reg, flag) # 0)]

\* a slip: | where ^ is meant
toggleFlag_or(F, reg, flag) ==
  IF _validateFlag(F, flag).kind = "throw"
  THEN [flags |-> reg, completion |-> _validateFlag(F, flag)]
  ELSE [flags |-> BitOr(reg, flag), completion |-> ReturnUndefined]

toggleFlag(F, reg, flag) ==
  IF _validateFlag(F, flag).kind = "throw"
  THEN [flags |-> reg, completion |-> _validateFlag(F, flag)]
  ELSE [flags |-> BitXor(reg, flag), completion |-> ReturnUndefined]

\* a slip: ^ where & ~ is meant
unsetFlag_xor(F, reg, flag) ==
  IF _validateFlag(F, flag).kind = "throw"
  THEN [flags |-> reg, completion |-> _validateFlag(F, flag)]
  ELSE [flags |-> BitXor(reg, flag), completion |-> ReturnUndefined]

unsetFlag(F, reg, flag) ==
  IF _validateFlag(F, flag).kind = "throw"
  THEN [flags |-> reg, completion |-> _validateFlag(F, flag)]
  ELSE [flags |-> BitAnd(reg, BitNot(flag)), completion |-> ReturnUndefined]

\* Object.keys(this.FLAGS).filter((flag) => this.isFlagSet(this.FLAGS[flag]))
\* from the i-th key on; a throw of isFlagSet ends the filter
RECURSIVE FilterFrom(_, _, _, _)
FilterFrom(F, reg, i, acc) ==
  IF i > Len(F) THEN ReturnNames(acc)
  ELSE LET key == ObjectKeys(F)[i]
           c == isFlagSet(F, reg, ObjectGet(F, key)).completion
       IN IF c.kind = "throw" THEN c
          ELSE FilterFrom(F, reg, i + 1, IF c.bool THEN Append(acc, key) ELSE acc)

\* a slip: the filter keeps the names whose flag is not set
getActiveFlags_inactive(F, reg) ==
  [flags |-> reg,
   completion |->
     ReturnNames(SelectSeq(ObjectKeys(F),
                           LAMBDA key : ~isFlagSet(F, reg, ObjectGet(F, key)).completion.bool))]

getActiveFlags(F, reg) ==
  [flags |-> reg, completion |-> FilterFrom(F, reg, 1, <<>>)]

\* a slip: == where = is meant, the register is compared and kept
clearFlags_compare(F, reg) == [flags |-> reg, completion |-> ReturnUndefined]

clearFlags(F, reg) == [flags |-> 0, completion |-> ReturnUndefined]

\* a slip: any of the bits instead of all of them
areFlagsSet_any(F, reg, args) ==
  LET combinedFlags == ReduceOr(args, 0) IN
  [flags |-> reg,
   completion |-> ReturnBoolean(BitAnd(reg, combinedFlags) # 0)]

areFlagsSet(F, reg, args) ==
  LET combinedFlags == ReduceOr(args, 0) IN
  [flags |-> reg,
   completion |-> ReturnBoolean(BitAnd(reg, combinedFlags) = combinedFlags)]

(***************************************************************************)
(* Inputs.                                                                 *)
(***************************************************************************)
\* distinct names, none an array index
NamePool ==
  << "F00", "F01", "F02", "F03", "F04", "F05", "F06", "F07", "F08", "F09",
     "F10", "F11", "F12", "F13", "F14", "F15", "F16", "F17", "F18", "F19",
     "F20", "F21", "F22", "F23", "F24", "F25", "F26", "F27", "F28", "F29",
     "F30", "F31", "F32", "F33", "F34", "F35" >>

Prefix(n) == SubSeq(NamePool, 1, n)

ShortNames == {"A", "B", "C", "0", "1"}

\* the name lists createCustomFlags and the constructor are tried on
NameLists ==
  {Prefix(n) : n \in 0..MaxNames}
    \cup UNION {[1..n -> ShortNames] : n \in 0..MaxShort}

\* the argument lists of the constructor the registers are built from:
\* none (the default set), and lists of 0, 3 and BitWidth names, one with a
\* name twice, two with a name that is an array index
Constructions ==
  { <<>>,
    << <<>> >>,
    << <<"A", "B", "C">> >>,
    << <<"B", "0", "B">> >>,
    << <<"B", "0", "A">> >>,
    << Prefix(BitWidth) >> }

\* the single bits passed as flags: bits 0, 1, 15 and 31
BitValues == {ShiftLeft(1, 0), ShiftLeft(1, 1), ShiftLeft(1, 15), ShiftLeft(1, 31)}

\* the numbers passed to the one-flag operations: also zero and a union
ArgValues == BitValues \cup {0, 3}

\* the argument lists passed to the variadic operations
ArgLists == UNION {[1..n -> BitValues] : n \in 0..MaxArgs}

(***************************************************************************)
(* The register under its operations.                                      *)
(***************************************************************************)
Init ==
  \E args \in Constructions :
    /\ FLAGS = constructor(args).FLAGS
    /\ flags = constructor(args).flags
    /\ made = args
    /\ call = [op |-> "new", args |-> <<>>, names |-> args]
    /\ result = constructor(args).completion
    /\ prev = 0

\* every step is one call of a method on the register: call is the method
\* with its arguments (args the numbers, names the lists of names), result
\* its completion, prev the register before it
SetFlags ==
  \E args \in ArgLists :
    /\ flags' = setFlags(FLAGS, flags, args).flags
    /\ result' = setFlags(FLAGS, flags, args).completion
    /\ call' = [op |-> "setFlags", args |-> args, names |-> <<>>]
    /\ prev' = flags
    /\ UNCHANGED <<FLAGS, made>>

IsFlagSet ==
  \E flag \in ArgValues :
    /\ flags' = isFlagSet(FLAGS, flags, flag).flags
    /\ result' = isFlagSet(FLAGS, flags, flag).completion
    /\ call' = [op |-> "isFlagSet", args |-> <<flag>>, names |-> <<>>]
    /\ prev' = flags
    /\ UNCHANGED <<FLAGS, made>>

ToggleFlag ==
  \E flag \in ArgValues :
    /\ flags' = toggleFlag(FLAGS, flags, flag).flags
    /\ result' = toggleFlag(FLAGS, flags, flag).completion
    /\ call' = [op |-> "toggleFlag", args |-> <<flag>>, names |-> <<>>]
    /\ prev' = flags
    /\ UNCHANGED <<FLAGS, made>>

UnsetFlag ==
  \E flag \in ArgValues :
    /\ flags' = unsetFlag(FLAGS, flags, flag).flags
    /\ result' = unsetFlag(FLAGS, flags, flag).completion
    /\ call' = [op |-> "unsetFlag", args |-> <<flag>>, names |-> <<>>]
    /\ prev' = flags
    /\ UNCHANGED <<FLAGS, made>>

GetActiveFlags ==
  /\ flags' = getActiveFlags(FLAGS, flags).flags
  /\ result' = getActiveFlags(FLAGS, flags).completion
  /\ call' = [op |-> "getActiveFlags", args |-> <<>>, names |-> <<>>]
  /\ prev' = flags
  /\ UNCHANGED <<FLAGS, made>>

ClearFlags ==
  /\ flags' = clearFlags(FLAGS, flags).flags
  /\ result' = clearFlags(FLAGS, flags).completion
  /\ call' = [op |-> "clearFlags", args |-> <<>>, names |-> <<>>]
  /\ prev' = flags
  /\ UNCHANGED <<FLAGS, made>>

AreFlagsSet ==
  \E args \in ArgLists :
    /\ flags' = areFlagsSet(FLAGS, flags, args).flags
    /\ result' = areFlagsSet(FLAGS, flags, args).completion
    /\ call' = [op |-> "areFlagsSet", args |-> args, names |-> <<>>]
    /\ prev' = flags
    /\ UNCHANGED <<FLAGS, made>>

Next ==
  \/ SetFlags
  \/ IsFlagSet
  \/ ToggleFlag
  \/ UnsetFlag
  \/ GetActiveFlags
  \/ ClearFlags
  \/ AreFlagsSet

Spec == Init /\ [][Next]_vars

(***************************************************************************)
(* Construction and createCustomFlags on their own: a default register     *)
(* and an argument list not yet used; one step builds a register from the  *)
(* list, or calls createCustomFlags of the default register on it.         *)
(***************************************************************************)
InitCreate ==
  \E args \in {<<>>} \cup {<<names>> : names \in NameLists} :
    /\ FLAGS = constructor(<<>>).FLAGS
    /\ flags = constructor(<<>>).flags
    /\ made = <<>>
    /\ call = [op |-> "input", args |-> <<>>, names |-> args]
    /\ result = ReturnUndefined
    /\ prev = 0

Construct ==
  /\ call.op = "input"
  /\ FLAGS' = constructor(call.names).FLAGS
  /\ flags' = constructor(call.names).flags
  /\ made' = call.names
  /\ result' = constructor(call.names).completion
  /\ call' = [op |-> "new", args |-> <<>>, names |-> call.names]
  /\ prev' = flags

CreateCustomFlags ==
  /\ call.op = "input"
  /\ Len(call.names) = 1
  /\ result' = createCustomFlags(call.names[1])
  /\ call' = [op |-> "createCustomFlags", args |-> <<>>, names |-> call.names]
  /\ prev' = flags
  /\ UNCHANGED <<FLAGS, flags, made>>

NextCreate ==
  \/ Construct
  \/ CreateCustomFlags

SpecCreate == InitCreate /\ [][NextCreate]_vars

(***************************************************************************)
(* The claims.  Membership in the Flag Definition Set and the bits of a    *)
(* number are stated here on their own, not through the operations.        *)
(***************************************************************************)
Bits == 0..(BitWidth - 1)

\* bit k of the 32-bit two's-complement pattern of x
HasBit(x, k) == IF k = 31 THEN x < 0 ELSE (Low31(x) \div 2^k) % 2 = 1

\* v is one of the values of the Flag Definition Set
Member(v) == \E i \in 1..Len(FLAGS) : FLAGS[i].value = v

DefinedValues == {FLAGS[i].value : i \in 1..Len(FLAGS)}

AllMembers(args) == \A i \in 1..Len(args) : Member(args[i])

\* what isFlagSet(v) answers on register reg, for a defined value v
Answers(reg, v) == isFlagSet(FLAGS, reg, v).completion

Returned == result.kind = "return"

Threw == result.kind = "throw"

\* C1: setFlags on members of the Flag Definition Set returns normally and
\* leaves the register equal to (old register OR the arguments); afterwards
\* isFlagSet of each argument and areFlagsSet of all are true, every flag set
\* before is still set, and the same call again changes nothing.
C1_SetFlagsOrsIn ==
  (call.op = "setFlags" /\ AllMembers(call.args)) =>
    /\ Returned
    /\ \A k \in Bits :
         HasBit(flags, k) <=>
           (HasBit(prev, k) \/ \E i \in 1..Len(call.args) : HasBit(call.args[i], k))
    /\ \A i \in 1..Len(call.args) : Answers(flags, call.args[i]) = ReturnBoolean(TRUE)
    /\ areFlagsSet(FLAGS, flags, call.args).completion = ReturnBoolean(TRUE)
    /\ \A v \in DefinedValues :
         Answers(prev, v) = ReturnBoolean(TRUE) => Answers(flags, v) = ReturnBoolean(TRUE)
    /\ setFlags(FLAGS, flags, call.args).flags = flags

\* setFlags(a, b) of two different defined flags added a bit to a register
\* that already held one
C1_Witness ==
  /\ call.op = "setFlags"
  /\ Len(call.args) = 2
  /\ call.args[1] # call.args[2]
  /\ AllMembers(call.args)
  /\ Returned
  /\ prev # 0
  /\ flags # prev

\* C2: setFlags with an argument that is no member of the Flag Definition
\* Set throws "Invalid flag" with an offending value and leaves the register
\* as it was, whatever the other arguments are.
C2_SetFlagsAllOrNothing ==
  (call.op = "setFlags" /\ ~AllMembers(call.args)) =>
    /\ Threw
    /\ \E i \in 1..Len(call.args) :
         /\ ~Member(call.args[i])
         /\ result.message = "Invalid flag: "
         /\ result.flag = call.args[i]
    /\ flags = prev

\* setFlags(a, x) threw for x although a is defined and was not yet set
C2_Witness ==
  /\ call.op = "setFlags"
  /\ Len(call.args) = 2
  /\ Member(call.args[1])
  /\ ~HasBit(prev, 0)
  /\ call.args[1] = 1
  /\ call.args[2] = ShiftLeft(1, 15)
  /\ ~Member(call.args[2])
  /\ Threw

OneFlagOps == {"isFlagSet", "toggleFlag", "unsetFlag"}

\* C3: isFlagSet, toggleFlag and unsetFlag throw "Invalid flag", leaving the
\* register unchanged, exactly when their argument is not one of the values
\* of the Flag Definition Set (0, a union of two flags, a bit above the
\* highest defined one included).
C3_OneFlagOpsValidate ==
  (call.op \in OneFlagOps) =>
    /\ Member(call.args[1]) <=> Returned
    /\ ~Member(call.args[1]) =>
         /\ result = InvalidFlag(call.args[1])
         /\ flags = prev

\* toggleFlag(1 | 2) threw on a register that defines 1 and 2 and holds a flag
C3_Witness ==
  /\ call.op = "toggleFlag"
  /\ call.args[1] = 3
  /\ Member(1)
  /\ Member(2)
  /\ Threw
  /\ prev # 0

\* C4: toggleFlag of a defined flag inverts what isFlagSet answers for it,
\* changes no other bit, and toggled once more gives the register back.
C4_ToggleInverts ==
  (call.op = "toggleFlag" /\ Member(call.args[1])) =>
    /\ Answers(flags, call.args[1]).bool = ~Answers(prev, call.args[1]).bool
    /\ \A k \in Bits :
         ~HasBit(call.args[1], k) => (HasBit(flags, k) <=> HasBit(prev, k))
    /\ toggleFlag(FLAGS, flags, call.args[1]).flags = prev

\* toggleFlag cleared a flag that was set and left another flag set
C4_Witness ==
  /\ call.op = "toggleFlag"
  /\ Member(call.args[1])
  /\ Answers(prev, call.args[1]) = ReturnBoolean(TRUE)
  /\ flags # 0

\* C5: unsetFlag of a defined flag clears exactly its bit: isFlagSet of it is
\* then false, every other defined flag answers as before, and a register
\* where it was clear is unchanged.
C5_UnsetClearsOneBit ==
  (call.op = "unsetFlag" /\ Member(call.args[1])) =>
    /\ Returned
    /\ Answers(flags, call.args[1]) = ReturnBoolean(FALSE)
    /\ \A k \in Bits :
         HasBit(flags, k) <=> (HasBit(prev, k) /\ ~HasBit(call.args[1], k))
    /\ \A v \in DefinedValues \ {call.args[1]} : Answers(flags, v) = Answers(prev, v)
    /\ Answers(prev, call.args[1]) = ReturnBoolean(FALSE) => flags = prev

\* unsetFlag cleared a flag that was set and left another flag set
C5_Witness ==
  /\ call.op = "unsetFlag"
  /\ Member(call.args[1])
  /\ Answers(prev, call.args[1]) = ReturnBoolean(TRUE)
  /\ flags # 0

\* C6: clearFlags returns normally and leaves the register 0, whatever the
\* register was.
C6_ClearFlagsZero ==
  (call.op = "clearFlags") => (Returned /\ flags = 0)

\* clearFlags ran on a register that held flags
C6_Witness ==
  /\ call.op = "clearFlags"
  /\ prev # 0

\* the place of a name in the Flag Definition Set
Place(name) == CHOOSE i \in 1..Len(FLAGS) : FLAGS[i].name = name

\* the value has a bit in common with the register
SetIn(reg, v) == \E k \in Bits : HasBit(reg, k) /\ HasBit(v, k)

\* what C7 says of the names and of the empty register, the order apart
ActiveFlagsExact ==
  /\ (call.op = "getActiveFlags") =>
       /\ Returned
       /\ \A i \in 1..Len(FLAGS) :
            (\E j \in 1..Len(result.names) : result.names[j] = FLAGS[i].name)
              <=> SetIn(flags, FLAGS[i].value)
       /\ \A j \in 1..Len(result.names) :
            \E i \in 1..Len(FLAGS) : FLAGS[i].name = result.names[j]
       /\ \A i, j \in 1..Len(result.names) :
            i # j => result.names[i] # result.names[j]
  /\ (call.op = "clearFlags") =>
       getActiveFlags(FLAGS, flags).completion = ReturnNames(<<>>)

\* the names as they were declared: the literal of DEFAULT_FLAGS, or the list
\* given to the constructor
Declared == IF made = <<>> THEN ObjectKeys(DEFAULT_FLAGS) ELSE made[1]

\* the place where a name was first declared
DeclaredPlace(name) ==
  CHOOSE i \in 1..Len(Declared) :
    Declared[i] = name /\ \A j \in 1..(i - 1) : Declared[j] # name

C8_AreFlagsSetMask ==
  (call.op = "areFlagsSet") =>
    /\ Returned
    /\ flags = prev
    /\ result.bool =
         (\A k \in Bits :
            (\E i \in 1..Len(call.args) : HasBit(call.args[i], k)) => HasBit(flags, k))
    /\ call.args = <<>> => result.bool = TRUE
    /\ (\E i \in 1..Len(call.args) : \E k \in Bits :
          HasBit(call.args[i], k) /\ ~HasBit(flags, k)) => result.bool = FALSE

\* areFlagsSet returned for a flag that is set and a value that is not defined
C8_Witness ==
  /\ call.op = "areFlagsSet"
  /\ Len(call.args) = 2
  /\ Member(call.args[1])
  /\ SetIn(flags, call.args[1])
  /\ ~Member(call.args[2])
  /\ Returned

HasDuplicates(names) ==
  \E i, j \in 1..Len(names) : i # j /\ names[i] = names[j]

\* C9: constructing a register from a name list with a duplicate name or
\* with more than BitWidth names throws and produces no register.
C9_ConstructionRejects ==
  (/\ call.op = "new"
   /\ Len(call.names) = 1
   /\ (HasDuplicates(call.names[1]) \/ Len(call.names[1]) > BitWidth)) => Threw

IsPowerOfTwo(v) == \E k \in 0..30 : v = 2^k

\* the mapping a construction or a createCustomFlags call produced
Produced == IF call.op = "new" THEN FLAGS ELSE result.object

\* C10: createCustomFlags and the constructor map the Nth name (from 0) of
\* every name list to 1 << N, so that the values are pairwise distinct powers
\* of two and each name has exactly one entry.
C10_NthNameGetsBitN ==
  (call.op \in {"new", "createCustomFlags"} /\ Len(call.names) = 1) =>
    LET names == call.names[1]
        obj == Produced
    IN /\ \A n \in 1..Len(names) :
            \E i \in 1..Len(obj) :
              obj[i].name = names[n] /\ obj[i].value = ShiftLeft(1, n - 1)
       /\ \A i, j \in 1..Len(obj) :
            i # j => (obj[i].value # obj[j].value /\ obj[i].name # obj[j].name)
       /\ \A i \in 1..Len(obj) : IsPowerOfTwo(obj[i].value)

\* every bit set in the register is a bit of a defined flag
WithinDefinedBits ==
  \A k \in Bits : HasBit(flags, k) => \E v \in DefinedValues : HasBit(v, k)

\* C11: a newly constructed register is 0, and after any sequence of calls,
\* returning or throwing, the register is a non-negative integer whose set
\* bits are all bits of flags of its Flag Definition Set.
C11_RegisterNonNegativeWithinDefinedBits ==
  /\ (call.op = "new") => flags = 0
  /\ WithinDefinedBits
  /\ flags >= 0

QueryOps == {"isFlagSet", "areFlagsSet", "getActiveFlags"}

\* C12: a call of isFlagSet, areFlagsSet or getActiveFlags, returning or
\* throwing, leaves the register and the Flag Definition Set as they were
\* before the call.
C12_QueriesChangeNothing ==
  [][(call'.op \in QueryOps) => (flags' = flags /\ FLAGS' = FLAGS)]_vars

\* isFlagSet threw on a register that holds a flag, and another query
\* returned on one
C12_Witness ==
  /\ call.op \in QueryOps
  /\ prev # 0
  /\ \/ call.op = "isFlagSet" /\ Threw
     \/ call.op = "getActiveFlags" /\ Returned

====
